---- MODULE Spec2Model ----
(***************************************************************************)
(* The blog API of stacks/python-fastapi/examples/blog-api (the "clean"    *)
(* variant): three PostgreSQL tables and the HTTP handlers that read and   *)
(* write them.  Every request runs in its own database transaction         *)
(* (get_db): the statements of the service layer are the steps, the        *)
(* transaction is committed when the handler returns normally and rolled   *)
(* back when it raises.  Tables are read at READ COMMITTED, PostgreSQL's   *)
(* default: a statement sees the committed rows and the rows its own       *)
(* transaction wrote.                                                      *)
(*                                                                         *)
(* A string is a sequence of one-character strings, an identifier (UUID)   *)
(* is a pair <<table, number>>.                                            *)
(***************************************************************************)
EXTENDS Integers, Sequences, FiniteSets, TLC

VARIABLES
    users,      \* committed rows of table users
    posts,      \* committed rows of table posts
    comments,   \* committed rows of table comments
    pc,         \* per request slot: the statement the handler is about to run
    req,        \* per request slot: the request being handled
    pend,       \* per request slot: rows written by its open transaction
    exc,        \* per request slot: the exception raised in the handler
    ret,        \* per request slot: the value the service method returned
    sql,        \* per request slot: SQL statements issued for the request
    resp,       \* per request slot: the response sent for the request
    now,        \* the database server's clock, as NOW() reads it
    txn,        \* per request slot: the start time of its open transaction
    conn,       \* per request slot: connections opened and closed for the request
    log,        \* per request slot: the lines logged for the request
    flow,       \* the responses received by the client of the workflow scenario
    vuln        \* the vulnerable variant: its tables, last request and response

vars == <<users, posts, comments, pc, req, pend, exc, ret, sql, resp, now, txn, conn, log,
          flow, vuln>>

---------------------------------------------------------------------------
(* Bounds of the model *)

NSlots == 2         \* requests that may be in flight at once
MaxUsers == 2       \* user rows (committed or being inserted)
MaxPosts == 2       \* post rows
MaxComments == 2    \* comment rows

(* Constants of the program *)

MaxTitleLen == 200  \* len(title) > 200, and posts.title VARCHAR(200)
UsernameLen == 100  \* users.username VARCHAR(100)
TitleLen == 200     \* posts.title VARCHAR(200)

Slots == 1..NSlots

---------------------------------------------------------------------------
(* Strings *)

Rep(c, n) == [i \in 1..n |-> c]

Whitespace == {" ", "\t", "\n"}

\* str.strip(): the text from its first to its last character that is not
\* whitespace, empty when there is none
Strip(s) ==
    LET kept == {i \in 1..Len(s) : s[i] \notin Whitespace}
    IN  IF kept = {} THEN <<>>
        ELSE SubSeq(s, CHOOSE i \in kept : \A j \in kept : i <= j,
                       CHOOSE i \in kept : \A j \in kept : i >= j)

\* UserService._hash_password: SHA-256 hex digest, taken as collision free
HashPassword(password) == <<"sha256">> \o password

---------------------------------------------------------------------------
(* Identifiers *)

UserId(i) == <<"user", ToString(i)>>
PostId(i) == <<"post", ToString(i)>>
CommentId(i) == <<"comment", ToString(i)>>

UserIds == {UserId(i) : i \in 1..MaxUsers}
PostIds == {PostId(i) : i \in 1..MaxPosts}
CommentIds == {CommentId(i) : i \in 1..MaxComments}

\* a request parameter that is not the text of a UUID
NotAUuid == <<"not-a-uuid">>

\* the cast of a text parameter to the UUID type of an id column
IsUuid(x) == x \in UserIds \cup PostIds \cup CommentIds

---------------------------------------------------------------------------
(* PostgreSQL: column types, visibility, constraints *)

\* VARCHAR(n) accepts a longer value only when the excess is all spaces
VarcharFits(s, n) ==
    \/ Len(s) <= n
    \/ \A i \in (n + 1)..Len(s) : s[i] = " "

\* ... and then stores it cut to n characters
VarcharValue(s, n) == IF Len(s) <= n THEN s ELSE SubSeq(s, 1, n)

NoRows == [users |-> {}, posts |-> {}, comments |-> {}]

\* the rows a statement of slot r's transaction sees
VisibleUsers(r) == users \cup pend[r].users
VisiblePosts(r) == posts \cup pend[r].posts
VisibleComments(r) == comments \cup pend[r].comments

AllUsers == users \cup UNION {pend[s].users : s \in Slots}
AllPosts == posts \cup UNION {pend[s].posts : s \in Slots}
AllComments == comments \cup UNION {pend[s].comments : s \in Slots}

\* the first of the numbers 1..n that is not in the set taken
FirstFree(n, taken) ==
    CHOOSE i \in 1..n : i \notin taken /\ \A j \in 1..(i - 1) : j \in taken

\* gen_random_uuid(): an identifier no row of the table carries
NewUserId ==
    UserId(FirstFree(MaxUsers, {i \in 1..MaxUsers : \E u \in AllUsers : u.id = UserId(i)}))
NewPostId ==
    PostId(FirstFree(MaxPosts, {i \in 1..MaxPosts : \E p \in AllPosts : p.id = PostId(i)}))
NewCommentId ==
    CommentId(FirstFree(MaxComments,
                        {i \in 1..MaxComments : \E c \in AllComments : c.id = CommentId(i)}))

\* the table without its UNIQUE constraint
UniqueViolation_None(r, name) == FALSE

\* username UNIQUE: the value is already in a row this transaction sees
UniqueViolation(r, name) == \E u \in VisibleUsers(r) : u.username = name

\* username UNIQUE: another open transaction inserted the value; the insert
\* waits until that transaction commits or rolls back
InsertWaits(r, name) ==
    \E s \in Slots \ {r} : \E u \in pend[s].users : u.username = name

\* REFERENCES users(id): the referenced row is visible
\* a schema without the REFERENCES users(id) clauses
UserExists_Always(r, id) == TRUE

\* REFERENCES users(id) of posts.author_id and comments.author_id
UserExists(r, id) == \E u \in VisibleUsers(r) : u.id = id

\* a lookup that finds a post under every id
PostExists_Always(r, id) == TRUE

\* SELECT id FROM posts WHERE id = %s, and REFERENCES posts(id)
PostExists(r, id) == \E p \in VisiblePosts(r) : p.id = id

\* no transaction is open on the connection
NoTxn == -1

\* the transaction of the connection has ended: conn.commit() / conn.rollback()
TxnCommitted == -2
TxnRolledBack == -3

\* NOW(): the start time of the current transaction; psycopg2 begins the
\* transaction with the first statement executed on the connection
TxnTime(r) == IF txn[r] = NoTxn THEN now ELSE txn[r]

\* datetime.isoformat()
IsoFormat(t) == <<"iso", ToString(t)>>

---------------------------------------------------------------------------
(* Requests, exceptions, responses *)

NoReq == [kind |-> "none"]

RegisterReq(u, p) == [kind |-> "register", username |-> u, password |-> p]
LoginReq(u, p) == [kind |-> "login", username |-> u, password |-> p]
CreatePostReq(t, c, a) ==
    [kind |-> "create_post", title |-> t, content |-> c, authorId |-> a]
CreateCommentReq(p, c, a) ==
    [kind |-> "create_comment", post_id |-> p, content |-> c, authorId |-> a]
GetPostReq(p) == [kind |-> "get_post", post_id |-> p]
ListCommentsReq(p) == [kind |-> "list_comments", post_id |-> p]

\* str(e): the text of a message and the value formatted into it
Detail(text, arg) == [text |-> text, arg |-> arg]
NoDetail == Detail("", <<>>)

NoExc == [type |-> "none", status |-> 0, detail |-> NoDetail]
ValueError(d) == [type |-> "ValueError", status |-> 0, detail |-> d]
HTTPException(code, d) == [type |-> "HTTPException", status |-> code, detail |-> d]
\* psycopg2.Error subclasses raised by cursor.execute
DataError == [type |-> "DataError", status |-> 0, detail |-> Detail("invalid input value", <<>>)]
IntegrityError == [type |-> "IntegrityError", status |-> 0, detail |-> Detail("violates constraint", <<>>)]

\* a line written by logger.info / logger.error
LogLine(level, text, arg) == [level |-> level, text |-> text, arg |-> arg]

NoConn == [opened |-> 0, closed |-> 0]

NoBody == [kind |-> "none"]
Response(code, d, b) == [status |-> code, detail |-> d, body |-> b]
NoResp == Response(0, NoDetail, NoBody)

---------------------------------------------------------------------------
(* Inputs *)

Usernames ==
    { <<>>, <<"a">>, <<"A">>,
      Rep("a", UsernameLen) \o <<" ">>,
      Rep("a", UsernameLen + 1) }

Passwords == { <<>>, <<"p">> }

Titles ==
    { <<>>, <<" ">>, <<" ", "a", " ", "b", "\n">>,
      Rep("a", MaxTitleLen),
      Rep("a", MaxTitleLen + 1),
      <<" ">> \o Rep("a", MaxTitleLen - 1) \o <<" ">>,
      <<" ">> \o Rep("a", MaxTitleLen),
      Rep(" ", MaxTitleLen),
      Rep(" ", MaxTitleLen + 1) }

Contents == { <<>>, <<"\n", " ">>, <<"\t", "c", " ", "d", " ">> }

\* the author that registers, an identifier no user carries, a malformed one
AuthorParams == {UserId(1), UserId(2), NotAUuid}
PostParams == PostIds \cup {NotAUuid}

\* the requests of the authentication endpoints
AuthRequests ==
    {RegisterReq(u, p) : u \in Usernames, p \in Passwords}
    \cup {LoginReq(u, p) : u \in Usernames, p \in Passwords}

\* the requests of the post and comment endpoints, and one author's registration
BlogRequests ==
    {RegisterReq(<<"a">>, <<"p">>)}
    \cup {CreatePostReq(t, c, a) : t \in Titles, c \in Contents, a \in AuthorParams}
    \cup {CreateCommentReq(p, c, a) : p \in PostParams, c \in Contents, a \in AuthorParams}
    \cup {LoginReq(<<"a">>, p) : p \in Passwords}
    \cup {GetPostReq(p) : p \in PostParams}
    \cup {ListCommentsReq(p) : p \in PostParams}

\* a post written and read back, with requests in between
ReadRequests ==
    {RegisterReq(<<"a">>, <<"p">>)}
    \cup {CreatePostReq(t, <<"\t", "c", " ", "d", " ">>, UserId(1)) :
            t \in {<<" ", "a", " ", "b", "\n">>, Rep("a", MaxTitleLen)}}
    \cup {CreateCommentReq(PostId(1), <<"c">>, UserId(1))}
    \cup {GetPostReq(p) : p \in PostIds}
    \cup {ListCommentsReq(PostId(1))}

\* comments written to one post at once, and listed
CommentRequests ==
    {RegisterReq(<<"a">>, <<"p">>),
     CreatePostReq(<<"a">>, <<"c">>, UserId(1)),
     CreateCommentReq(PostId(1), <<"c">>, UserId(1)),
     CreateCommentReq(PostId(1), <<"d">>, UserId(1)),
     ListCommentsReq(PostId(1))}

\* the requests raced against each other
RaceRequests ==
    {RegisterReq(u, <<"p">>) :
        u \in {<<"a">>, <<"A">>, Rep("a", UsernameLen) \o <<" ">>}}
    \cup {LoginReq(<<"a">>, <<"p">>)}
    \cup {CreatePostReq(t, <<"c">>, UserId(1)) : t \in {<<>>, <<"a">>}}
    \cup {CreateCommentReq(PostId(1), c, UserId(1)) : c \in {<<>>, <<"c">>}}

---------------------------------------------------------------------------
(* User service *)

Lower(s) == [i \in 1..Len(s) |-> IF s[i] = "A" THEN "a" ELSE s[i]]

\* the existence check comparing usernames without regard to case
UsernameExists_AnyCase(r, username) ==
    \E u \in VisibleUsers(r) : Lower(u.username) = Lower(username)

\* create_user: SELECT id FROM users WHERE username = %s
UsernameExists(r, username) == \E u \in VisibleUsers(r) : u.username = username

\* RETURNING id, username / SELECT id, username
UserRecord(u) == [id |-> u.id, username |-> u.username]

\* the lookup by username alone
AuthenticateRows_UsernameOnly(r, username, password) ==
    {u \in VisibleUsers(r) : u.username = username}

\* authenticate_user: the rows WHERE username = %s AND password_hash = %s
AuthenticateRows(r, username, password) ==
    {u \in VisibleUsers(r) :
        u.username = username /\ u.password_hash = HashPassword(password)}

\* authenticate_user: cursor.fetchone() as a result of zero or one record
AuthenticateUserResult(r, username, password) ==
    LET rows == AuthenticateRows(r, username, password)
    IN  IF rows = {} THEN <<>> ELSE <<UserRecord(CHOOSE u \in rows : TRUE)>>

---------------------------------------------------------------------------
(* Steps of the handlers *)

Goto(r, label) == pc' = [pc EXCEPT ![r] = label]
Raise(r, e) == exc' = [exc EXCEPT ![r] = e]
\* cursor.execute: one more statement, in the transaction of the connection
Execute(r) ==
    /\ sql' = [sql EXCEPT ![r] = @ + 1]
    /\ txn' = [txn EXCEPT ![r] = TxnTime(r)]
\* logger.info
Info(r, text, arg) == log' = [log EXCEPT ![r] = Append(@, LogLine("info", text, arg))]

FirstStep(q) ==
    CASE q.kind = "register" -> "create_user_select"
      [] q.kind = "login" -> "authenticate_user"
      [] q.kind = "create_post" -> "create_post"
      [] q.kind = "create_comment" -> "create_comment_select"
      [] q.kind = "get_post" -> "get_post"
      [] q.kind = "list_comments" -> "list_comments"

Busy(r) == pc[r] \notin {"idle", "done"}

InFlight(kind) == Cardinality({s \in Slots : Busy(s) /\ req[s].kind = kind})

\* the model's bound on the rows a table may come to hold
HasRoom(q) ==
    CASE q.kind = "register" -> Cardinality(users) + InFlight("register") < MaxUsers
      [] q.kind = "create_post" -> Cardinality(posts) + InFlight("create_post") < MaxPosts
      [] q.kind = "create_comment" ->
            Cardinality(comments) + InFlight("create_comment") < MaxComments
      [] OTHER -> TRUE

\* a request arrives: get_db opens its connection and the handler starts
Receive(r, requests) ==
    \E q \in requests :
        /\ pc[r] = "idle"
        /\ HasRoom(q)
        /\ req' = [req EXCEPT ![r] = q]
        /\ conn' = [conn EXCEPT ![r].opened = @ + 1]
        /\ Goto(r, FirstStep(q))
        /\ UNCHANGED <<users, posts, comments, pend, exc, ret, sql, resp, now, txn, log>>
        /\ UNCHANGED <<flow, vuln>>

\* register -> create_user: the existence check
CreateUserSelect(r) ==
    /\ pc[r] = "create_user_select"
    /\ Execute(r)
    /\ IF UsernameExists(r, req[r].username)
       THEN /\ Raise(r, ValueError(Detail("Username '{}' already exists", req[r].username)))
            /\ Goto(r, "respond")
       ELSE /\ Goto(r, "create_user_insert")
            /\ UNCHANGED exc
    /\ UNCHANGED <<users, posts, comments, req, pend, ret, resp, now, conn, log>>
    /\ UNCHANGED <<flow, vuln>>

\* register -> create_user: INSERT INTO users ... RETURNING
CreateUserInsert(r) ==
    /\ pc[r] = "create_user_insert"
    /\ LET fits == VarcharFits(req[r].username, UsernameLen)
           name == VarcharValue(req[r].username, UsernameLen)
           row == [id |-> NewUserId, username |-> name,
                   password_hash |-> HashPassword(req[r].password),
                   created_at |-> TxnTime(r)]
       IN  /\ fits => ~InsertWaits(r, name)
           /\ Execute(r)
           /\ IF ~fits
              THEN Raise(r, DataError) /\ UNCHANGED <<pend, ret, log>>
              ELSE IF UniqueViolation(r, name)
              THEN Raise(r, IntegrityError) /\ UNCHANGED <<pend, ret, log>>
              ELSE /\ pend' = [pend EXCEPT ![r].users = @ \cup {row}]
                   /\ ret' = [ret EXCEPT ![r] = <<UserRecord(row)>>]
                   /\ Info(r, "Created user: {}", req[r].username)
                   /\ UNCHANGED exc
    /\ Goto(r, "respond")
    /\ UNCHANGED <<users, posts, comments, req, resp, now, conn>>
    /\ UNCHANGED <<flow, vuln>>

\* login -> authenticate_user, then the handler's check of the result
Login(r) ==
    /\ pc[r] = "authenticate_user"
    /\ Execute(r)
    /\ LET user == AuthenticateUserResult(r, req[r].username, req[r].password)
       IN  /\ ret' = [ret EXCEPT ![r] = user]
           /\ IF user = <<>>
              THEN /\ Raise(r, HTTPException(401, Detail("Invalid credentials", <<>>)))
                   /\ UNCHANGED log
              ELSE /\ Info(r, "User authenticated: {}", req[r].username)
                   /\ UNCHANGED exc
    /\ Goto(r, "respond")
    /\ UNCHANGED <<users, posts, comments, req, pend, resp, now, conn>>
    /\ UNCHANGED <<flow, vuln>>

---------------------------------------------------------------------------
(* Post and comment services *)

Null == <<>>

\* the check of the empty text alone
IsBlank_EmptyOnly(value) == value = <<>>

\* "not value or len(value.strip()) == 0"
IsBlank(value) == value = <<>> \/ Len(Strip(value)) = 0

\* the validation of the length alone
PostValidation_LengthOnly(title, content) ==
    IF Len(title) > MaxTitleLen
    THEN Detail("Title cannot exceed 200 characters", <<>>)
    ELSE NoDetail

\* the validation with the length limit off by one
PostValidation_OffByOne(title, content) ==
    IF IsBlank(title) THEN Detail("Title cannot be empty", <<>>)
    ELSE IF Len(title) >= MaxTitleLen
    THEN Detail("Title cannot exceed 200 characters", <<>>)
    ELSE IF IsBlank(content) THEN Detail("Content cannot be empty", <<>>)
    ELSE NoDetail

\* a validation that measures the title after trimming it
PostValidation_TrimmedLength(title, content) ==
    IF IsBlank(title) THEN Detail("Title cannot be empty", <<>>)
    ELSE IF Len(Strip(title)) > MaxTitleLen
    THEN Detail("Title cannot exceed 200 characters", <<>>)
    ELSE IF IsBlank(content) THEN Detail("Content cannot be empty", <<>>)
    ELSE NoDetail

\* a validation that looks at the content first
PostValidation_ContentFirst(title, content) ==
    IF IsBlank(content) THEN Detail("Content cannot be empty", <<>>)
    ELSE IF IsBlank(title) THEN Detail("Title cannot be empty", <<>>)
    ELSE IF Len(title) > MaxTitleLen
    THEN Detail("Title cannot exceed 200 characters", <<>>)
    ELSE NoDetail

\* create_post: the validation, as the message of the ValueError it raises
PostValidation(title, content) ==
    IF IsBlank(title) THEN Detail("Title cannot be empty", <<>>)
    ELSE IF Len(title) > MaxTitleLen
    THEN Detail("Title cannot exceed 200 characters", <<>>)
    ELSE IF IsBlank(content) THEN Detail("Content cannot be empty", <<>>)
    ELSE NoDetail

\* create_comment without its validation
CommentValidation_None(content) == NoDetail

\* create_comment: the validation
CommentValidation(content) ==
    IF IsBlank(content) THEN Detail("Content cannot be empty", <<>>) ELSE NoDetail

\* the INSERT of the values as given
PostRow_Untrimmed(id, title, content, author_id, created_at) ==
    [id |-> id, title |-> title, content |-> content,
     author_id |-> author_id, created_at |-> created_at, updated_at |-> Null]

\* create_post: the parameters of the INSERT
PostRow(id, title, content, author_id, created_at) ==
    [id |-> id, title |-> Strip(title), content |-> Strip(content),
     author_id |-> author_id, created_at |-> created_at, updated_at |-> Null]

\* create_comment: the parameters of the INSERT
CommentRow(id, post_id, content, author_id, created_at) ==
    [id |-> id, post_id |-> post_id, content |-> Strip(content),
     author_id |-> author_id, created_at |-> created_at]

\* create_post: validation, then INSERT INTO posts ... RETURNING
CreatePost(r) ==
    /\ pc[r] = "create_post"
    /\ LET q == req[r]
           invalid == PostValidation(q.title, q.content)
           row == PostRow(NewPostId, q.title, q.content, q.authorId, TxnTime(r))
       IN  IF invalid # NoDetail
           THEN Raise(r, ValueError(invalid)) /\ UNCHANGED <<pend, ret, sql, txn, log>>
           ELSE /\ Execute(r)
                /\ IF ~IsUuid(q.authorId) \/ ~VarcharFits(row.title, TitleLen)
                   THEN Raise(r, DataError) /\ UNCHANGED <<pend, ret, log>>
                   ELSE IF ~UserExists(r, q.authorId)
                   THEN Raise(r, IntegrityError) /\ UNCHANGED <<pend, ret, log>>
                   ELSE /\ pend' = [pend EXCEPT ![r].posts = @ \cup {row}]
                        /\ ret' = [ret EXCEPT ![r] = <<row>>]
                        /\ Info(r, "Created post: {}", row.id)
                        /\ UNCHANGED exc
    /\ Goto(r, "respond")
    /\ UNCHANGED <<users, posts, comments, req, resp, now, conn>>
    /\ UNCHANGED <<flow, vuln>>

\* create_comment looking the post up before it validates the content
CreateCommentSelect_SelectFirst(r) ==
    /\ pc[r] = "create_comment_select"
    /\ LET q == req[r]
           invalid == CommentValidation(q.content)
       IN  /\ Execute(r)
           /\ IF ~IsUuid(q.post_id)
              THEN Raise(r, DataError) /\ Goto(r, "respond")
              ELSE IF ~PostExists(r, q.post_id)
              THEN /\ Raise(r, ValueError(Detail("Post with ID {} not found", q.post_id)))
                   /\ Goto(r, "respond")
              ELSE IF invalid # NoDetail
              THEN Raise(r, ValueError(invalid)) /\ Goto(r, "respond")
              ELSE Goto(r, "create_comment_insert") /\ UNCHANGED exc
    /\ UNCHANGED <<users, posts, comments, req, pend, ret, resp, now, conn, log>>
    /\ UNCHANGED <<flow, vuln>>

\* create_comment: validation, then SELECT id FROM posts WHERE id = %s
CreateCommentSelect(r) ==
    /\ pc[r] = "create_comment_select"
    /\ LET q == req[r]
           invalid == CommentValidation(q.content)
       IN  IF invalid # NoDetail
           THEN Raise(r, ValueError(invalid)) /\ Goto(r, "respond") /\ UNCHANGED <<sql, txn>>
           ELSE /\ Execute(r)
                /\ IF ~IsUuid(q.post_id)
                   THEN Raise(r, DataError) /\ Goto(r, "respond")
                   ELSE IF ~PostExists(r, q.post_id)
                   THEN /\ Raise(r, ValueError(Detail("Post with ID {} not found", q.post_id)))
                        /\ Goto(r, "respond")
                   ELSE Goto(r, "create_comment_insert") /\ UNCHANGED exc
    /\ UNCHANGED <<users, posts, comments, req, pend, ret, resp, now, conn, log>>
    /\ UNCHANGED <<flow, vuln>>

\* create_comment: INSERT INTO comments ... RETURNING
CreateCommentInsert(r) ==
    /\ pc[r] = "create_comment_insert"
    /\ LET q == req[r]
           row == CommentRow(NewCommentId, q.post_id, q.content, q.authorId, TxnTime(r))
       IN  /\ Execute(r)
           /\ IF ~IsUuid(q.authorId)
              THEN Raise(r, DataError) /\ UNCHANGED <<pend, ret, log>>
              ELSE IF ~PostExists(r, q.post_id) \/ ~UserExists(r, q.authorId)
              THEN Raise(r, IntegrityError) /\ UNCHANGED <<pend, ret, log>>
              ELSE /\ pend' = [pend EXCEPT ![r].comments = @ \cup {row}]
                   /\ ret' = [ret EXCEPT ![r] = <<row>>]
                   /\ Info(r, "Created comment: {} on post: {}", row.id \o q.post_id)
                   /\ UNCHANGED exc
    /\ Goto(r, "respond")
    /\ UNCHANGED <<users, posts, comments, req, resp, now, conn>>
    /\ UNCHANGED <<flow, vuln>>

\* a lookup that takes a post whatever its id
GetPostByIdResult_Any(r, post_id) ==
    IF VisiblePosts(r) = {} THEN <<>> ELSE <<CHOOSE p \in VisiblePosts(r) : TRUE>>

\* get_post_by_id: cursor.fetchone() of the rows WHERE id = %s
GetPostByIdResult(r, post_id) ==
    LET rows == {p \in VisiblePosts(r) : p.id = post_id}
    IN  IF rows = {} THEN <<>> ELSE <<CHOOSE p \in rows : TRUE>>

\* get_post -> get_post_by_id, then the handler's check of the result
GetPost(r) ==
    /\ pc[r] = "get_post"
    /\ Execute(r)
    /\ IF ~IsUuid(req[r].post_id)
       THEN Raise(r, DataError) /\ UNCHANGED ret
       ELSE LET post == GetPostByIdResult(r, req[r].post_id)
            IN  /\ ret' = [ret EXCEPT ![r] = post]
                /\ IF post = <<>>
                   THEN Raise(r, HTTPException(404, Detail("Post not found", <<>>)))
                   ELSE UNCHANGED exc
    /\ Goto(r, "respond")
    /\ UNCHANGED <<users, posts, comments, req, pend, resp, now, conn, log>>
    /\ UNCHANGED <<flow, vuln>>

\* a query that finds no row
CommentsOfPost_None(r, post_id) == {}

\* the rows of every post
CommentsOfPost_All(r, post_id) == VisibleComments(r)

\* list_comments_by_post: the rows WHERE post_id = %s
CommentsOfPost(r, post_id) == {c \in VisibleComments(r) : c.post_id = post_id}

\* ORDER BY created_at ASC: the rows in an order of ascending created_at; the
\* order among rows of equal created_at is whatever the executor produces
OrderedByCreatedAt(rows) ==
    {s \in [1..Cardinality(rows) -> rows] :
        /\ \A i, j \in 1..Cardinality(rows) : i # j => s[i] # s[j]
        /\ \A i, j \in 1..Cardinality(rows) : i < j => s[i].created_at <= s[j].created_at}

\* list_comments -> list_comments_by_post: cursor.fetchall()
ListComments(r) ==
    /\ pc[r] = "list_comments"
    /\ Execute(r)
    /\ IF ~IsUuid(req[r].post_id)
       THEN Raise(r, DataError) /\ UNCHANGED ret
       ELSE /\ \E list \in OrderedByCreatedAt(CommentsOfPost(r, req[r].post_id)) :
                ret' = [ret EXCEPT ![r] = list]
            /\ UNCHANGED exc
    /\ Goto(r, "respond")
    /\ UNCHANGED <<users, posts, comments, req, pend, resp, now, conn, log>>
    /\ UNCHANGED <<flow, vuln>>

---------------------------------------------------------------------------
(* Responses *)

InternalServerError == Response(500, Detail("Internal server error", <<>>), NoBody)

\* a handler that answers every exception as a 400 carrying its text
ErrorResponse_All400(e) == Response(400, e.detail, NoBody)

\* handlers with "except ValueError" then "except Exception"
ErrorResponse(e) ==
    IF e.type = "ValueError" THEN Response(400, e.detail, NoBody)
    ELSE InternalServerError

\* handlers with "except HTTPException: raise" then "except Exception"
RaisedOrInternal_Internal(e) == InternalServerError

\* "except HTTPException: raise" then "except Exception": 500
RaisedOrInternal(e) ==
    IF e.type = "HTTPException" THEN Response(e.status, e.detail, NoBody)
    ELSE InternalServerError

\* register: RegisterResponse or the HTTPException raised
RegisterResult(e, rows) ==
    IF e.type = "none"
    THEN Response(201, NoDetail,
                  [userId |-> rows[1].id, username |-> rows[1].username])
    ELSE ErrorResponse(e)

\* login: "except HTTPException: raise" then "except Exception"
LoginResult(e, rows) ==
    IF e.type = "none"
    THEN Response(200, NoDetail,
                  [userId |-> rows[1].id, username |-> rows[1].username])
    ELSE RaisedOrInternal(e)

\* PostResponse(...) of a row; updated_at.isoformat() if updated_at else None
PostResponse(post) ==
    [postId |-> post.id, title |-> post.title,
     content |-> post.content, authorId |-> post.author_id,
     createdAt |-> IsoFormat(post.created_at),
     updatedAt |-> IF post.updated_at = Null THEN Null ELSE IsoFormat(post.updated_at)]

\* CommentResponse(...) of a row
CommentResponse(comment) ==
    [commentId |-> comment.id, postId |-> comment.post_id,
     content |-> comment.content, authorId |-> comment.author_id,
     createdAt |-> IsoFormat(comment.created_at)]

\* create_post: PostResponse or the HTTPException raised
CreatePostResult(e, rows) ==
    IF e.type = "none"
    THEN Response(201, NoDetail, PostResponse(rows[1]))
    ELSE ErrorResponse(e)

\* create_comment: CommentResponse or the HTTPException raised
CreateCommentResult(e, rows) ==
    IF e.type = "none"
    THEN Response(201, NoDetail, CommentResponse(rows[1]))
    ELSE ErrorResponse(e)

\* get_post without "except HTTPException: raise"
GetPostResult_NoReraise(e, rows) ==
    IF e.type = "none"
    THEN Response(200, NoDetail, PostResponse(rows[1]))
    ELSE InternalServerError

\* get_post: PostResponse, the 404 raised, or the generic 500
GetPostResult(e, rows) ==
    IF e.type = "none"
    THEN Response(200, NoDetail, PostResponse(rows[1]))
    ELSE RaisedOrInternal(e)

\* list_comments: the list of CommentResponse, or the generic 500
ListCommentsResult_NotFoundWhenEmpty(e, rows) ==
    IF e.type = "none" /\ rows # <<>>
    THEN Response(200, NoDetail,
                  [comments |-> [i \in 1..Len(rows) |-> CommentResponse(rows[i])]])
    ELSE IF e.type = "none"
    THEN Response(404, Detail("Post not found", <<>>), NoBody)
    ELSE InternalServerError

\* list_comments: CommentListResponse, or 500
ListCommentsResult(e, rows) ==
    IF e.type = "none"
    THEN Response(200, NoDetail,
                  [comments |-> [i \in 1..Len(rows) |-> CommentResponse(rows[i])]])
    ELSE InternalServerError

ResponseOf(q, e, rows) ==
    CASE q.kind = "register" -> RegisterResult(e, rows)
      [] q.kind = "login" -> LoginResult(e, rows)
      [] q.kind = "create_post" -> CreatePostResult(e, rows)
      [] q.kind = "create_comment" -> CreateCommentResult(e, rows)
      [] q.kind = "get_post" -> GetPostResult(e, rows)
      [] q.kind = "list_comments" -> ListCommentsResult(e, rows)

\* a write that replaces the rows of the table
Committed_Replace(r, table, rows) ==
    IF exc[r].type = "none" /\ rows # {} THEN rows ELSE table

\* a context manager that never commits
Committed_Never(r, table, rows) == table

\* get_db_connection: "yield conn; conn.commit()" / "except: conn.rollback()"
EndOfTransaction(r) == IF exc[r].type = "none" THEN TxnCommitted ELSE TxnRolledBack

\* get_db_connection: commit when the handler returned, rollback when it raised
Committed(r, table, rows) == IF exc[r].type = "none" THEN table \cup rows ELSE table

\* a context manager that closes the connection only after a commit
Close_AfterCommit(r) ==
    conn' = [conn EXCEPT ![r].closed = IF exc[r].type = "none" THEN @ + 1 ELSE @]

\* get_db_connection: "finally: if conn: conn.close()"
Close(r) == conn' = [conn EXCEPT ![r].closed = @ + 1]

\* get_db_connection: 'logger.error(f"Database error: {e}")', where e is the
\* exception that left the handler: the HTTPException of the response
DatabaseErrorLine(response) ==
    LogLine("error", "Database error: {}: {}",
            <<ToString(response.status), response.detail.text>> \o response.detail.arg)

\* the clock when the transaction has ended: it has moved on from the start
\* time that a row of the transaction carries
ClockAfter(r) == IF pend[r] # NoRows THEN now + 1 ELSE now

\* the handler returns or raises; get_db ends the transaction and closes the
\* connection; the response goes out
Respond(r) ==
    /\ pc[r] = "respond"
    /\ users' = Committed(r, users, pend[r].users)
    /\ posts' = Committed(r, posts, pend[r].posts)
    /\ comments' = Committed(r, comments, pend[r].comments)
    /\ resp' = [resp EXCEPT ![r] = ResponseOf(req[r], exc[r], ret[r])]
    /\ log' = [log EXCEPT ![r] =
                IF exc[r].type = "none" THEN @
                ELSE Append(@, DatabaseErrorLine(ResponseOf(req[r], exc[r], ret[r])))]
    /\ Close(r)
    /\ now' = ClockAfter(r)
    /\ txn' = [txn EXCEPT ![r] = EndOfTransaction(r)]
    /\ pc' = [pc EXCEPT ![r] = "done"]
    /\ pend' = [pend EXCEPT ![r] = NoRows]
    /\ exc' = [exc EXCEPT ![r] = NoExc]
    /\ ret' = [ret EXCEPT ![r] = <<>>]
    /\ UNCHANGED <<req, sql>>
    /\ UNCHANGED <<flow, vuln>>

\* the client has the response; the slot takes the next request
Deliver(r) ==
    /\ pc[r] = "done"
    /\ pc' = [pc EXCEPT ![r] = "idle"]
    /\ req' = [req EXCEPT ![r] = NoReq]
    /\ sql' = [sql EXCEPT ![r] = 0]
    /\ resp' = [resp EXCEPT ![r] = NoResp]
    /\ conn' = [conn EXCEPT ![r] = NoConn]
    /\ log' = [log EXCEPT ![r] = <<>>]
    /\ txn' = [txn EXCEPT ![r] = NoTxn]
    /\ UNCHANGED <<users, posts, comments, pend, exc, ret, now>>
    /\ UNCHANGED <<flow, vuln>>

---------------------------------------------------------------------------
(* The vulnerable variant (app/main.py): SQLite, SQL built by interpolation *)
(* into the statement text.  A handler is an "async def" that never awaits: *)
(* requests are handled one at a time, each in one step.                    *)

\* the state of the variables of the clean variant
clean == <<users, posts, comments, pc, req, pend, exc, ret, sql, resp, now, txn, conn, log,
           flow>>

Quote == "'"

VulnTexts == { <<"a">>, <<"b">>, <<"o", Quote, "k">>, <<"o", Quote, Quote, "k">> }
VulnNames == { <<"a">>, <<"b">>, <<"o", Quote, "k">> }
VulnEmails == { <<"e">>, <<"f">> }
VulnTitles == { <<"a">>, <<"o", Quote, "k">> }
VulnRowIds == 1..MaxPosts

\* hash_password: MD5 hex digest, taken as collision free on these inputs
Md5(password) == <<"md5">> \o password

\* create_token: the JWT of the user id
CreateToken(user_id) == <<"jwt", ToString(user_id)>>

\* '{value}' read by SQLite as a string literal: a doubled quote stands for
\* one quote; any other quote ends the literal, and the statement, whose text
\* then goes on with the rest of the value, does not parse
SqlParses(value) ==
    \A i \in 1..Len(value) :
        value[i] = Quote =>
            LET before == Cardinality({j \in 1..(i - 1) : value[j] = Quote})
            IN  IF before % 2 = 0
                THEN i < Len(value) /\ value[i + 1] = Quote
                ELSE value[i - 1] = Quote

\* the value of the literal: the text with every doubled quote as one quote
SqlLiteral(value) ==
    LET kept == {i \in 1..Len(value) :
                    value[i] = Quote =>
                        Cardinality({j \in 1..i : value[j] = Quote}) % 2 = 1}
        Nth[n \in 0..Len(value)] ==
            IF n = 0 THEN 0
            ELSE CHOOSE i \in kept : i > Nth[n - 1] /\ \A j \in kept : j > Nth[n - 1] => i <= j
    IN  [n \in 1..Cardinality(kept) |-> value[Nth[n]]]

NoVulnReq == [kind |-> "none"]
NoVulnExc == [type |-> "none", text |-> <<>>]
NoVulnResp == [status |-> 0, body |-> [kind |-> "none"]]

\* sqlalchemy.exc.OperationalError: near "...": syntax error, with the statement
SyntaxError(value) ==
    [type |-> "OperationalError", text |-> <<"syntax error", "[SQL: ...]">> \o value]
\* sqlalchemy.exc.IntegrityError: UNIQUE constraint failed, with the statement
UniqueFailed(column, value) ==
    [type |-> "IntegrityError",
     text |-> <<"UNIQUE constraint failed: users.", column, "[SQL: ...]">> \o value]
\* fastapi.HTTPException: str(e) is "{status_code}: {detail}"
VulnHTTPException(code, detail) ==
    [type |-> "HTTPException", text |-> <<ToString(code), ": ", detail>>]

\* sqlalchemy.exc.IntegrityError: FOREIGN KEY constraint failed
ForeignKeyFailed ==
    [type |-> "IntegrityError", text |-> <<"FOREIGN KEY constraint failed", "[SQL: ...]">>]

\* a connection that sets PRAGMA foreign_keys = ON
VulnForeignKeyFails_Enforced(table, id) == ~\E row \in vuln[table] : row.id = id

\* FOREIGN KEY ... REFERENCES: SQLite parses the clause and, PRAGMA
\* foreign_keys being off on the connections of the engine, does not enforce it
VulnForeignKeyFails(table, id) == FALSE

\* a handler that lets the exception out as an opaque failure
VulnResponse_Opaque(e, body) ==
    IF e.type = "none" THEN [status |-> 200, body |-> body]
    ELSE [status |-> 500, body |-> [kind |-> "error", error |-> <<"Internal server error">>]]

\* every handler: return the result, or 'except Exception as e: return
\* {"error": str(e)}', which FastAPI sends with status 200
VulnResponse(e, body) ==
    IF e.type = "none" THEN [status |-> 200, body |-> body]
    ELSE [status |-> 200, body |-> [kind |-> "error", error |-> e.text]]

\* INTEGER PRIMARY KEY AUTOINCREMENT: one more than the largest id given out;
\* no row is ever deleted
NextRowId(rows) == Cardinality(rows) + 1

\* the handler of request q ends: exception e or result body, and the tables
VulnEnds(q, e, body, table, rows) ==
    vuln' = [vuln EXCEPT !.req = q, !.exc = e, !.resp = VulnResponse(e, body),
                         ![table] = rows]

\* register: INSERT INTO users, commit
VulnRegister ==
    \E username \in VulnNames : \E email \in VulnEmails :
        LET q == [kind |-> "register", username |-> username, email |-> email,
                  password |-> <<"p">>]
            row == [id |-> NextRowId(vuln.users), username |-> SqlLiteral(username),
                    email |-> SqlLiteral(email), password |-> Md5(q.password)]
            taken == {c \in {"username", "email"} : \E u \in vuln.users : u[c] = row[c]}
        IN  /\ Cardinality(vuln.users) < MaxUsers
            /\ IF ~SqlParses(username)
               THEN VulnEnds(q, SyntaxError(username), <<>>, "users", vuln.users)
               ELSE IF taken # {}
               THEN \E c \in taken :
                        VulnEnds(q, UniqueFailed(c, username \o email \o Md5(q.password)),
                                 <<>>, "users", vuln.users)
               ELSE VulnEnds(q, NoVulnExc,
                             [kind |-> "message", message |-> "User created successfully",
                              user_id |-> row.id],
                             "users", vuln.users \cup {row})
            /\ UNCHANGED clean

\* login: SELECT ... WHERE username = '...' AND password = '...'
VulnLogin ==
    \E username \in VulnNames : \E password \in {<<"p">>, <<"q">>} :
        LET q == [kind |-> "login", username |-> username, password |-> password]
            rows == {u \in vuln.users :
                        u.username = SqlLiteral(username) /\ u.password = Md5(password)}
        IN  /\ IF ~SqlParses(username)
               THEN VulnEnds(q, SyntaxError(username), <<>>, "users", vuln.users)
               ELSE IF rows = {}
               THEN VulnEnds(q, VulnHTTPException(401, "Invalid credentials"), <<>>,
                             "users", vuln.users)
               ELSE \E u \in rows :
                        VulnEnds(q, NoVulnExc,
                                 [kind |-> "token", access_token |-> CreateToken(u.id),
                                  user |-> [id |-> u.id, username |-> u.username,
                                            email |-> u.email]],
                                 "users", vuln.users)
            /\ UNCHANGED clean

\* create_post: INSERT INTO posts, commit; SQLite does not enforce the
\* FOREIGN KEY clause (PRAGMA foreign_keys is off unless a connection sets it)
VulnCreatePost ==
    \E title \in VulnTitles : \E author_id \in 1..MaxUsers :
        LET q == [kind |-> "create_post", title |-> title, content |-> <<"c">>,
                  author_id |-> author_id]
            row == [id |-> NextRowId(vuln.posts), title |-> SqlLiteral(title),
                    content |-> SqlLiteral(q.content), author_id |-> author_id]
        IN  /\ Cardinality(vuln.posts) < MaxPosts
            /\ IF ~SqlParses(title)
               THEN VulnEnds(q, SyntaxError(title), <<>>, "posts", vuln.posts)
               ELSE IF VulnForeignKeyFails("users", author_id)
               THEN VulnEnds(q, ForeignKeyFailed, <<>>, "posts", vuln.posts)
               ELSE VulnEnds(q, NoVulnExc,
                             [kind |-> "message", message |-> "Post created successfully",
                              post_id |-> row.id],
                             "posts", vuln.posts \cup {row})
            /\ UNCHANGED clean

\* get_post: SELECT * FROM posts WHERE id = {post_id}
VulnGetPost ==
    \E post_id \in VulnRowIds :
        LET q == [kind |-> "get_post", post_id |-> post_id]
            rows == {p \in vuln.posts : p.id = post_id}
        IN  /\ IF rows = {}
               THEN VulnEnds(q, VulnHTTPException(404, "Post not found"), <<>>,
                             "posts", vuln.posts)
               ELSE \E p \in rows :
                        VulnEnds(q, NoVulnExc, [kind |-> "post", post |-> p],
                                 "posts", vuln.posts)
            /\ UNCHANGED clean

\* create_comment: INSERT INTO comments, commit; no lookup of the post, and
\* no FOREIGN KEY enforced
VulnCreateComment ==
    \E post_id \in VulnRowIds : \E content \in VulnTexts \ {<<"b">>} :
        LET q == [kind |-> "create_comment", post_id |-> post_id, content |-> content,
                  author |-> <<"a">>]
            row == [id |-> NextRowId(vuln.comments), post_id |-> post_id,
                    content |-> SqlLiteral(content), author |-> SqlLiteral(q.author)]
        IN  /\ Cardinality(vuln.comments) < MaxComments
            /\ IF ~SqlParses(content)
               THEN VulnEnds(q, SyntaxError(content), <<>>, "comments", vuln.comments)
               ELSE IF VulnForeignKeyFails("posts", post_id)
               THEN VulnEnds(q, ForeignKeyFailed, <<>>, "comments", vuln.comments)
               ELSE VulnEnds(q, NoVulnExc,
                             [kind |-> "message", message |-> "Comment created successfully",
                              comment_id |-> row.id],
                             "comments", vuln.comments \cup {row})
            /\ UNCHANGED clean

\* get_comments: SELECT * FROM comments WHERE post_id = {post_id}
VulnGetComments ==
    \E post_id \in VulnRowIds :
        LET q == [kind |-> "get_comments", post_id |-> post_id]
        IN  /\ VulnEnds(q, NoVulnExc,
                        [kind |-> "rows",
                         rows |-> {c \in vuln.comments : c.post_id = post_id}],
                        "comments", vuln.comments)
            /\ UNCHANGED clean

\* search: SELECT * FROM posts WHERE title LIKE '%{q}%' OR content LIKE '%{q}%'
VulnSearch ==
    \E text \in {<<"a">>, <<"o", Quote, "k">>} :
        LET q == [kind |-> "search", q |-> text]
            Has(value) == \E i \in 1..Len(value) : SubSeq(value, i, i + Len(text) - 1) = text
        IN  /\ IF ~SqlParses(text)
               THEN VulnEnds(q, SyntaxError(text), <<>>, "posts", vuln.posts)
               ELSE VulnEnds(q, NoVulnExc,
                             [kind |-> "rows",
                              rows |-> {p \in vuln.posts : Has(p.title) \/ Has(p.content)}],
                             "posts", vuln.posts)
            /\ UNCHANGED clean

VulnInit ==
    [users |-> {}, posts |-> {}, comments |-> {},
     req |-> NoVulnReq, exc |-> NoVulnExc, resp |-> NoVulnResp]

---------------------------------------------------------------------------
(* Specifications *)

Init ==
    /\ users = {} /\ posts = {} /\ comments = {}
    /\ pc = [r \in Slots |-> "idle"]
    /\ req = [r \in Slots |-> NoReq]
    /\ pend = [r \in Slots |-> NoRows]
    /\ exc = [r \in Slots |-> NoExc]
    /\ ret = [r \in Slots |-> <<>>]
    /\ sql = [r \in Slots |-> 0]
    /\ resp = [r \in Slots |-> NoResp]
    /\ now = 0
    /\ txn = [r \in Slots |-> NoTxn]
    /\ conn = [r \in Slots |-> NoConn]
    /\ log = [r \in Slots |-> <<>>]
    /\ flow = <<>>
    /\ vuln = VulnInit

Step(r) ==
    \/ CreateUserSelect(r)
    \/ CreateUserInsert(r)
    \/ Login(r)
    \/ CreatePost(r)
    \/ CreateCommentSelect(r)
    \/ CreateCommentInsert(r)
    \/ Respond(r)
    \/ Deliver(r)

\* requests are handled concurrently, their statements interleave
Next == \E r \in Slots : Receive(r, RaceRequests) \/ Step(r)

Spec == Init /\ [][Next]_vars

\* no request is being handled
Quiet == \A r \in Slots : ~Busy(r)

\* authentication requests, run one after another; the response of the
\* request before stays in its slot while the other slot takes the next
AuthStep(r) ==
    \/ Quiet /\ Receive(r, AuthRequests)
    \/ CreateUserSelect(r)
    \/ CreateUserInsert(r)
    \/ Login(r)
    \/ Respond(r)
    \/ Deliver(r)

AuthNext == AuthStep(1) \/ AuthStep(2)

AuthSpec == Init /\ [][AuthNext]_vars

\* post and comment requests, run one after another
BlogNext ==
    \/ Receive(1, BlogRequests)
    \/ CreateUserSelect(1)
    \/ CreateUserInsert(1)
    \/ CreatePost(1)
    \/ CreateCommentSelect(1)
    \/ CreateCommentInsert(1)
    \/ Login(1)
    \/ GetPost(1)
    \/ ListComments(1)
    \/ Respond(1)
    \/ Deliver(1)

BlogSpec == Init /\ [][BlogNext]_vars

\* posts written and read back, one request after another; the response of
\* a request stays in its slot while the other slot takes the next ones
ReadStep(r) ==
    \/ Quiet /\ Receive(r, ReadRequests)
    \/ CreateUserSelect(r)
    \/ CreateUserInsert(r)
    \/ CreatePost(r)
    \/ CreateCommentSelect(r)
    \/ CreateCommentInsert(r)
    \/ GetPost(r)
    \/ ListComments(r)
    \/ Respond(r)
    \/ Deliver(r)

ReadNext == ReadStep(1) \/ ReadStep(2)

ReadSpec == Init /\ [][ReadNext]_vars

\* comment requests handled concurrently
CommentStep(r) ==
    \/ Receive(r, CommentRequests)
    \/ CreateUserSelect(r)
    \/ CreateUserInsert(r)
    \/ CreatePost(r)
    \/ CreateCommentSelect(r)
    \/ CreateCommentInsert(r)
    \/ ListComments(r)
    \/ Respond(r)
    \/ Deliver(r)

CommentNext == \E r \in Slots : CommentStep(r)

CommentSpec == Init /\ [][CommentNext]_vars

\* the vulnerable variant
VulnNext ==
    \/ VulnRegister
    \/ VulnLogin
    \/ VulnCreatePost
    \/ VulnGetPost
    \/ VulnCreateComment
    \/ VulnGetComments
    \/ VulnSearch

VulnSpec == Init /\ [][VulnNext]_vars

\* test_complete_blog_workflow: one client, one request after the other, each
\* built from the responses to the earlier ones
FlowKinds ==
    <<"register", "login", "create_post", "get_post", "create_comment", "list_comments">>

FlowStatus == <<201, 200, 201, 200, 201, 200>>

FlowUsernames == { <<"a">>, <<"A">> }
FlowPasswords == { <<"p">> }
FlowTitles == { <<"a">>, <<"a", " ", "b">>, Rep("a", MaxTitleLen) }
FlowContents == { <<"c">>, <<"c", " ", "d">> }

\* the position of a request in the workflow
StepOf(kind) == CHOOSE i \in 1..Len(FlowKinds) : FlowKinds[i] = kind

\* "assert response.status_code == ..." of the steps taken so far
FlowAsserts(f) == \A i \in 1..Len(f) : f[i].response.status = FlowStatus[i]

\* the request the client sends after the exchanges f
FlowRequests(f) ==
    CASE Len(f) = 0 ->
            {RegisterReq(u, p) : u \in FlowUsernames, p \in FlowPasswords}
      [] Len(f) = 1 ->
            {LoginReq(f[1].request.username, f[1].request.password)}
      [] Len(f) = 2 ->
            {CreatePostReq(t, c, f[1].response.body.userId) :
                t \in FlowTitles, c \in FlowContents}
      [] Len(f) = 3 ->
            {GetPostReq(f[3].response.body.postId)}
      [] Len(f) = 4 ->
            {CreateCommentReq(f[3].response.body.postId, c, f[1].response.body.userId) :
                c \in FlowContents}
      [] Len(f) = 5 ->
            {ListCommentsReq(f[3].response.body.postId)}
      [] OTHER -> {}

\* client.post(...) / client.get(...): the next request of the workflow
FlowSend ==
    /\ Len(flow) < Len(FlowKinds)
    /\ FlowAsserts(flow)
    /\ Receive(1, FlowRequests(flow))

\* the client takes the response of its request
FlowRead ==
    /\ pc[1] = "done"
    /\ Len(flow) = StepOf(req[1].kind) - 1
    /\ flow' = Append(flow, [request |-> req[1], response |-> resp[1]])
    /\ UNCHANGED <<users, posts, comments, pc, req, pend, exc, ret, sql, resp, now,
                   txn, conn, log, vuln>>

\* ... and the server is done with that request
FlowDeliver ==
    /\ pc[1] = "done"
    /\ Len(flow) = StepOf(req[1].kind)
    /\ Deliver(1)

FlowNext ==
    \/ FlowSend
    \/ CreateUserSelect(1)
    \/ CreateUserInsert(1)
    \/ Login(1)
    \/ CreatePost(1)
    \/ GetPost(1)
    \/ CreateCommentSelect(1)
    \/ CreateCommentInsert(1)
    \/ ListComments(1)
    \/ Respond(1)
    \/ FlowRead
    \/ FlowDeliver

\* the server answers every request and the client goes on to its next step
FlowSpec == Init /\ [][FlowNext]_vars /\ WF_vars(FlowNext)

---------------------------------------------------------------------------
(* Properties *)

Done(r, kind) == pc[r] = "done" /\ req[r].kind = kind

\* the value the users table holds for a username given to register
StoredName(username) == VarcharValue(username, UsernameLen)

\* C1: in every reachable state, whatever the interleaving of the register
\* requests, no two rows of the users table carry the same username.
C1_UsernamesUnique ==
    \A u \in users : \A v \in users : u.username = v.username => u = v

\* two registrations of one username raced: one is stored, the other failed
\* on the constraint
C1_Witness ==
    \E r \in Slots : \E u \in users :
        /\ Done(r, "register")
        /\ sql[r] = 2
        /\ resp[r].status = 500
        /\ u.username = StoredName(req[r].username)

Responds(r, kind) == pc[r] = "respond" /\ pc'[r] = "done" /\ req[r].kind = kind

\* what C2 says of a register request that ends: users is the table before it
C2_Outcome(r) ==
    IF \E u \in users : u.username = req[r].username
    THEN /\ resp'[r].status = 400
         /\ resp'[r].detail = Detail("Username '{}' already exists", req[r].username)
         /\ users' = users
    ELSE /\ resp'[r].status = 201
         /\ users \subseteq users'
         /\ Cardinality(users' \ users) = 1
         /\ \A u \in users' \ users : u.id = resp'[r].body.userId

C4_LoginAfterRegister ==
    [][\A r \in Slots : \A s \in Slots \ {r} :
        ( /\ Done(r, "register") /\ resp[r].status = 201
          /\ Responds(s, "login")
          /\ req[s].username = req[r].username )
        => IF req[s].password = req[r].password
           THEN /\ resp'[s].status = 200
                /\ resp'[s].body.userId = resp[r].body.userId
           ELSE resp'[s] = Response(401, Detail("Invalid credentials", <<>>), NoBody)]_vars

\* C5: authenticate_user returns a record exactly when a stored row has the
\* username and the hash of the password given, then the record of that row;
\* otherwise it returns None, and it raises nothing (the only exception of a
\* login is the 401 the handler raises on None).
C5_AuthenticateExactMatch ==
    \A r \in Slots :
        pc[r] = "respond" /\ req[r].kind = "login" =>
            LET match == {u \in users :
                            /\ u.username = req[r].username
                            /\ u.password_hash = HashPassword(req[r].password)}
            IN  /\ match = {} => ret[r] = <<>> /\ exc[r].type = "HTTPException"
                /\ match # {} =>
                    /\ exc[r].type = "none"
                    /\ Len(ret[r]) = 1
                    /\ \E u \in match : ret[r][1] = [id |-> u.id, username |-> u.username]

\* authenticate_user returned None for a stored username and a wrong password
C5_Witness ==
    \E r \in Slots : \E u \in users :
        /\ pc[r] = "respond" /\ req[r].kind = "login"
        /\ u.username = req[r].username
        /\ u.password_hash # HashPassword(req[r].password)
        /\ ret[r] = <<>>

\* C8: no user row with an empty username or an empty password is created.
C8_NoEmptyCredentials ==
    \A u \in users : u.username # <<>> /\ u.password_hash # HashPassword(<<>>)

\* text of whitespace only; the empty text is one
AllWhitespace(x) == \A i \in 1..Len(x) : x[i] \in Whitespace

\* the author named by a create request is a stored user
AuthorStored(r) == \E u \in users : u.id = req[r].authorId

TitleEmpty == Response(400, Detail("Title cannot be empty", <<>>), NoBody)
TitleTooLong == Response(400, Detail("Title cannot exceed 200 characters", <<>>), NoBody)
ContentEmpty == Response(400, Detail("Content cannot be empty", <<>>), NoBody)

\* C6 as stated: create_post with an empty title is answered 400 "Title
\* cannot be empty", with any title of 201 characters 400 "Title cannot
\* exceed 200 characters", and with any title of 200 characters, a content
\* that is not blank and a stored author, 201.
C6_AnyTitle ==
    \A r \in Slots :
        Done(r, "create_post") =>
            /\ req[r].title = <<>> => resp[r] = TitleEmpty
            /\ Len(req[r].title) = 201 => resp[r] = TitleTooLong
            /\ ( /\ Len(req[r].title) = 200
                 /\ ~AllWhitespace(req[r].content)
                 /\ AuthorStored(r) ) => resp[r].status = 201

\* C6 amended: the same, for titles of 201 and of 200 characters that are
\* not whitespace only.
C6_TitleLimits ==
    \A r \in Slots :
        Done(r, "create_post") =>
            /\ req[r].title = <<>> => resp[r] = TitleEmpty
            /\ Len(req[r].title) = 201 /\ ~AllWhitespace(req[r].title)
                => resp[r] = TitleTooLong
            /\ ( /\ Len(req[r].title) = 200 /\ ~AllWhitespace(req[r].title)
                 /\ ~AllWhitespace(req[r].content)
                 /\ AuthorStored(r) ) => resp[r].status = 201

\* a post with a title of 200 characters was created
C6_Witness ==
    \E r \in Slots : \E p \in posts :
        /\ Done(r, "create_post")
        /\ Len(req[r].title) = 200
        /\ resp[r].status = 201
        /\ p.id = resp[r].body.postId

\* C7: create_post with a title or a content that is empty or whitespace
\* only, and create_comment with such a content, are answered 400 with the
\* message of a validation error, whatever the other fields.
C7_BlankRejected ==
    \A r \in Slots :
        /\ ( /\ Done(r, "create_post")
             /\ AllWhitespace(req[r].title) \/ AllWhitespace(req[r].content) )
           => resp[r] \in {TitleEmpty, TitleTooLong, ContentEmpty}
        /\ Done(r, "create_comment") /\ AllWhitespace(req[r].content)
           => resp[r] = ContentEmpty

\* a post whose content is whitespace only, under a good title and a stored
\* author, was rejected
C7_Witness ==
    \E r \in Slots :
        /\ Done(r, "create_post")
        /\ ~AllWhitespace(req[r].title) /\ Len(req[r].title) <= 200
        /\ req[r].content # <<>> /\ AllWhitespace(req[r].content)
        /\ AuthorStored(r)
        /\ resp[r] = ContentEmpty

\* value is input without its leading and trailing whitespace, and is
\* otherwise input unchanged
IsTrimOf(value, input) ==
    /\ value # <<>> => value[1] \notin Whitespace /\ value[Len(value)] \notin Whitespace
    /\ \E i \in 0..(Len(input) - Len(value)) :
        /\ SubSeq(input, i + 1, i + Len(value)) = value
        /\ \A k \in 1..i : input[k] \in Whitespace
        /\ \A k \in (i + Len(value) + 1)..Len(input) : input[k] \in Whitespace

\* C9: a created post is stored, and returned, with its title and content
\* trimmed of leading and trailing whitespace and otherwise as given; so is
\* the content of a created comment.
C9_StoredTrimmed ==
    \A r \in Slots :
        /\ Done(r, "create_post") /\ resp[r].status = 201 =>
            /\ IsTrimOf(resp[r].body.title, req[r].title)
            /\ IsTrimOf(resp[r].body.content, req[r].content)
            /\ \E p \in posts :
                /\ p.id = resp[r].body.postId
                /\ p.title = resp[r].body.title
                /\ p.content = resp[r].body.content
        /\ Done(r, "create_comment") /\ resp[r].status = 201 =>
            /\ IsTrimOf(resp[r].body.content, req[r].content)
            /\ \E c \in comments :
                /\ c.id = resp[r].body.commentId
                /\ c.content = resp[r].body.content

\* a post was created from a title with whitespace around it
C9_Witness ==
    \E r \in Slots : \E p \in posts :
        /\ Done(r, "create_post") /\ resp[r].status = 201
        /\ p.id = resp[r].body.postId
        /\ p.title # req[r].title
        /\ p.content # req[r].content

\* a create request that validation rejects
Malformed(q) ==
    \/ /\ q.kind = "create_post"
       /\ \/ AllWhitespace(q.title)
          \/ Len(q.title) > 200
          \/ AllWhitespace(q.content)
    \/ q.kind = "create_comment" /\ AllWhitespace(q.content)

\* C10: from its arrival to its response, a create request that validation
\* rejects issues no SQL statement, writes no row in its transaction and
\* leaves the three tables as they were.
C10_RejectedBeforePersistence ==
    [][\A r \in Slots :
        Malformed(req[r]) \/ Malformed(req'[r]) =>
            /\ sql'[r] = 0
            /\ pend'[r] = NoRows
            /\ UNCHANGED <<users, posts, comments>>]_vars

\* a post with an over-long title was rejected with no statement issued,
\* with a user stored
C10_Witness ==
    \E r \in Slots :
        /\ Done(r, "create_post")
        /\ resp[r] = TitleTooLong
        /\ sql[r] = 0
        /\ users # {}

NotFound(post_id) == Response(400, Detail("Post with ID {} not found", post_id), NoBody)

\* C11: in every reachable state, whatever the interleaving of the requests,
\* the post_id of every stored comment is the id of a stored post; and a
\* create_comment request has inserted a comment (in its transaction, or stored
\* and answered 201) only when a post of its post id is stored.
C11_CommentsReferToStoredPost ==
    /\ \A c \in comments : \E p \in posts : p.id = c.post_id
    /\ \A r \in Slots :
        ( /\ req[r].kind = "create_comment"
          /\ pend[r].comments # {} \/ resp[r].status = 201 )
        => \E p \in posts : p.id = req[r].post_id

\* a comment was refused for a post that was not stored, and a comment of the
\* post, stored since, is stored
C11_Witness ==
    \E r \in Slots : \E c \in comments :
        /\ Done(r, "create_comment")
        /\ resp[r] = NotFound(req[r].post_id)
        /\ c.post_id = req[r].post_id

\* the post named by a comment request is well formed and not stored
PostMissing(r) == IsUuid(req[r].post_id) /\ ~\E p \in posts : p.id = req[r].post_id

\* the request of slot r ends without a comment row written or stored
NoCommentStored(r) == pend[r].comments = {} /\ comments' = comments

\* C12 as stated: a create_comment on a well-formed post id that no stored
\* post carries is answered 400 "Post with ID ... not found", one with an
\* empty content is answered 400, and neither stores a comment row.
C12_AnyContent ==
    [][\A r \in Slots :
        Responds(r, "create_comment") =>
            /\ PostMissing(r) => resp'[r] = NotFound(req[r].post_id) /\ NoCommentStored(r)
            /\ req[r].content = <<>> => resp'[r].status = 400 /\ NoCommentStored(r)]_vars

\* C12 amended: the "not found" answer is that of a request whose content is
\* not blank.
C12_NotFoundIs400 ==
    [][\A r \in Slots :
        Responds(r, "create_comment") =>
            /\ PostMissing(r) /\ ~AllWhitespace(req[r].content)
                => resp'[r] = NotFound(req[r].post_id) /\ NoCommentStored(r)
            /\ PostMissing(r) => resp'[r].status = 400 /\ NoCommentStored(r)
            /\ req[r].content = <<>> => resp'[r].status = 400 /\ NoCommentStored(r)]_vars

\* a comment on a post that is not stored was answered 400 "not found", with
\* a user stored
C12_Witness ==
    \E r \in Slots :
        /\ Done(r, "create_comment")
        /\ resp[r] = NotFound(req[r].post_id)
        /\ AuthorStored(r)
        /\ comments = {}

\* C13: get_post of a well-formed id is answered 200 with the record of the
\* stored post of that id when there is one, 404 "Post not found" when there
\* is none; no step of the request changes a table.
C13_GetPost ==
    [][\A r \in Slots :
        /\ req[r].kind = "get_post" \/ req'[r].kind = "get_post"
            => UNCHANGED <<users, posts, comments>> /\ pend'[r] = NoRows
        /\ Responds(r, "get_post") /\ IsUuid(req[r].post_id) =>
            IF \E p \in posts : p.id = req[r].post_id
            THEN \E p \in posts :
                    /\ p.id = req[r].post_id
                    /\ resp'[r].status = 200
                    /\ resp'[r].body.postId = p.id
                    /\ resp'[r].body.title = p.title
                    /\ resp'[r].body.content = p.content
                    /\ resp'[r].body.authorId = p.author_id
                    /\ resp'[r].body.createdAt = <<"iso", ToString(p.created_at)>>
                    /\ resp'[r].body.updatedAt = <<>>
            ELSE resp'[r] = Response(404, Detail("Post not found", <<>>), NoBody)]_vars

\* with one post stored, the get of another well-formed id was answered 404
C13_Witness ==
    \E r \in Slots :
        /\ Done(r, "get_post")
        /\ posts # {}
        /\ IsUuid(req[r].post_id)
        /\ \A p \in posts : p.id # req[r].post_id
        /\ resp[r].status = 404

\* C14: when a create_post was answered 201, a get_post of the postId it
\* returned, made after it and after any further requests, is answered 200
\* with the postId, title, content, authorId, createdAt and updatedAt of the
\* create response.
C14_CreateThenGet ==
    [][\A r \in Slots : \A s \in Slots \ {r} :
        ( /\ Done(r, "create_post") /\ resp[r].status = 201
          /\ Responds(s, "get_post")
          /\ req[s].post_id = resp[r].body.postId )
        => /\ resp'[s].status = 200
           /\ resp'[s].body.postId = resp[r].body.postId
           /\ resp'[s].body.title = resp[r].body.title
           /\ resp'[s].body.content = resp[r].body.content
           /\ resp'[s].body.authorId = resp[r].body.authorId
           /\ resp'[s].body.createdAt = resp[r].body.createdAt
           /\ resp'[s].body.updatedAt = resp[r].body.updatedAt]_vars

\* a post was created, then another post and a comment, then the first post
\* was read back
C14_Witness ==
    \E r \in Slots : \E s \in Slots \ {r} :
        /\ Done(r, "create_post") /\ resp[r].status = 201
        /\ Done(s, "get_post") /\ resp[s].status = 200
        /\ req[s].post_id = resp[r].body.postId
        /\ Cardinality(posts) = 2
        /\ comments # {}
        /\ \E p \in posts : p.created_at > (CHOOSE q \in posts : q.id = req[s].post_id).created_at

\* the place of a comment in the order of the INSERTs: identifiers are given
\* out in that order
InsertionOrder(id) == CHOOSE i \in 1..MaxComments : CommentId(i) = id

\* the comments listed in the response of slot r
Listed(r) == resp[r].body.comments

\* C15: with requests made one after another, list_comments of a post is
\* answered 200 with exactly the stored comments of that post, each once and
\* none of another post, in ascending order of creation time, which is the
\* order in which they were created; the list is empty when the post has no
\* comment.
C15_ListInCreationOrder ==
    \A r \in Slots :
        Done(r, "list_comments") /\ IsUuid(req[r].post_id) =>
            LET stored == {c \in comments : c.post_id = req[r].post_id}
            IN  /\ resp[r].status = 200
                /\ Len(Listed(r)) = Cardinality(stored)
                /\ {Listed(r)[i].commentId : i \in 1..Len(Listed(r))} = {c.id : c \in stored}
                /\ \A i \in 1..Len(Listed(r)) :
                    /\ Listed(r)[i].postId = req[r].post_id
                    /\ \E c \in stored :
                        /\ c.id = Listed(r)[i].commentId
                        /\ c.content = Listed(r)[i].content
                        /\ c.author_id = Listed(r)[i].authorId
                        /\ <<"iso", ToString(c.created_at)>> = Listed(r)[i].createdAt
                /\ \A i, j \in 1..Len(Listed(r)) :
                    i < j => /\ InsertionOrder(Listed(r)[i].commentId)
                                    < InsertionOrder(Listed(r)[j].commentId)
                             /\ \E c, d \in stored :
                                    /\ c.id = Listed(r)[i].commentId
                                    /\ d.id = Listed(r)[j].commentId
                                    /\ c.created_at < d.created_at

\* the two comments of a post were listed
C15_Witness ==
    \E r \in Slots :
        /\ Done(r, "list_comments")
        /\ resp[r].status = 200
        /\ Len(Listed(r)) = 2

\* C16: two comments of one post that carry the same creation timestamp are
\* listed in the order in which they were inserted.
C16_StableTieBreak ==
    \A r \in Slots :
        Done(r, "list_comments") /\ resp[r].status = 200 =>
            \A i, j \in 1..Len(Listed(r)) :
                i < j /\ Listed(r)[i].createdAt = Listed(r)[j].createdAt
                => InsertionOrder(Listed(r)[i].commentId)
                        < InsertionOrder(Listed(r)[j].commentId)

\* C17: a request being handled has opened one connection and not closed
\* it; a request that has completed, with whatever outcome, has opened one
\* connection and closed it; when no request is being handled no connection
\* opened by a request is open.
C17_ConnectionClosed ==
    /\ \A r \in Slots :
        /\ Busy(r) => conn[r].opened = 1 /\ conn[r].closed = 0
        /\ pc[r] = "done" => conn[r].opened = 1 /\ conn[r].closed = 1
        /\ pc[r] = "idle" => conn[r].opened = 0 /\ conn[r].closed = 0
    /\ Quiet => \A r \in Slots : conn[r].opened = conn[r].closed

\* a request that failed on a database error has completed, its connection
\* closed
C17_Witness ==
    \E r \in Slots :
        /\ pc[r] = "done"
        /\ resp[r] = InternalServerError
        /\ sql[r] > 0
        /\ conn[r].opened = 1 /\ conn[r].closed = 1

\* the exception is none of the deliberate ones: a ValueError (400), the 404
\* of get_post, the 401 of login
Unexpected(e) == e.type \notin {"none", "ValueError", "HTTPException"}

\* some line logged for the request of slot r carries the text
LoggedText(r, text) ==
    \E i \in 1..Len(log'[r]) :
        \/ log'[r][i].text = text
        \/ \E k \in 1..Len(log'[r][i].arg) : log'[r][i].arg[k] = text

\* C18: a request whose handling raised an exception other than the
\* deliberate ones is answered with the generic 500, whose body carries no
\* text of the exception, and the text of the exception is logged.
C18_OpaqueAndLogged ==
    [][\A r \in Slots :
        pc[r] = "respond" /\ pc'[r] = "done" /\ Unexpected(exc[r]) =>
            /\ resp'[r].status = 500
            /\ resp'[r].detail.text # exc[r].detail.text
            /\ resp'[r].body = NoBody
            /\ LoggedText(r, exc[r].detail.text)]_vars

\* C19: no step updates or deletes a stored row: every stored user, post and
\* comment is stored unchanged after the step, the updated_at of every post
\* is unset, and so is the updatedAt of every post in a response.
C19_NoUpdateNoDelete ==
    [][ /\ users \subseteq users'
        /\ posts \subseteq posts'
        /\ comments \subseteq comments'
        /\ \A p \in posts' : p.updated_at = <<>>
        /\ \A r \in Slots :
            req'[r].kind \in {"create_post", "get_post"} /\ resp'[r].status \in {200, 201}
            => resp'[r].body.updatedAt = <<>> ]_vars

\* with two posts and a comment stored, a post was read
C19_Witness ==
    \E r \in Slots :
        /\ Done(r, "get_post") /\ resp[r].status = 200
        /\ resp[r].body.updatedAt = <<>>
        /\ Cardinality(posts) = 2
        /\ comments # {}

\* C20: every stored post has a title of 1 to 200 characters and a content
\* that is not empty; every stored comment has a content that is not empty.
C20_StoredTextBounds ==
    /\ \A p \in posts :
        /\ 1 <= Len(p.title) /\ Len(p.title) <= 200
        /\ Len(p.content) >= 1
    /\ \A c \in comments : Len(c.content) >= 1

\* a post with a title of 200 characters and a comment are stored
C20_Witness ==
    /\ \E p \in posts : Len(p.title) = 200
    /\ comments # {}

\* the last request of the vulnerable variant was a create_comment on a post
\* id that no stored post carries
VulnPostMissing ==
    /\ vuln.req.kind = "create_comment"
    /\ ~\E p \in vuln.posts : p.id = vuln.req.post_id

\* the comment of the last request is stored and its creation was reported
VulnCommentStored ==
    /\ vuln.resp.status = 200
    /\ vuln.resp.body.kind = "message"
    /\ vuln.resp.body.message = "Comment created successfully"
    /\ \E c \in vuln.comments :
        c.id = vuln.resp.body.comment_id /\ c.post_id = vuln.req.post_id

\* the text has no single quote
NoQuote(value) == \A i \in 1..Len(value) : value[i] # Quote

C23_ErrorTextReturned ==
    vuln.exc.type # "none" =>
        /\ vuln.resp.body.kind = "error"
        /\ vuln.resp.body.error = vuln.exc.text

\* a registration that failed on a UNIQUE constraint was answered with the
\* text of the database error, the statement and its password hash included
C23_Witness ==
    /\ vuln.req.kind = "register"
    /\ vuln.exc.type = "IntegrityError"
    /\ vuln.resp.body.kind = "error"
    /\ \E i \in 1..Len(vuln.resp.body.error) : vuln.resp.body.error[i] = "md5"

\* C30: in the vulnerable variant a login whose username and password match
\* no user row is answered with status 401, and a get of a post id that no
\* post carries with status 404.
C30_VulnStatusCodes ==
    /\ ( /\ vuln.req.kind = "login"
         /\ ~\E u \in vuln.users :
                u.username = vuln.req.username /\ u.password = Md5(vuln.req.password) )
       => vuln.resp.status = 401
    /\ ( /\ vuln.req.kind = "get_post"
         /\ ~\E p \in vuln.posts : p.id = vuln.req.post_id )
       => vuln.resp.status = 404

\* C24: when a request ends, its transaction is committed if the handler
\* raised nothing and rolled back otherwise: after a response of status 2xx
\* the tables hold the rows the request wrote besides what they held, after a
\* response of status 4xx or 5xx they hold what they held before the request;
\* no other step of a request changes a table.
C24_CommitOrRollback ==
    [][\A r \in Slots :
        IF pc[r] = "respond" /\ pc'[r] = "done"
        THEN IF resp'[r].status >= 400
             THEN /\ UNCHANGED <<users, posts, comments>>
                  /\ txn'[r] = TxnRolledBack
             ELSE /\ users' = users \cup pend[r].users
                  /\ posts' = posts \cup pend[r].posts
                  /\ comments' = comments \cup pend[r].comments
                  /\ txn'[r] = TxnCommitted
                  /\ resp'[r].status = 201 =>
                        Cardinality(pend[r].users \cup pend[r].posts \cup pend[r].comments) = 1
        ELSE (\A s \in Slots : ~(pc[s] = "respond" /\ pc'[s] = "done"))
             => UNCHANGED <<users, posts, comments>>]_vars

\* a comment whose INSERT failed, after the SELECT of its post, was answered
\* 500 and its transaction rolled back, with rows stored before it
C24_Witness ==
    \E r \in Slots :
        /\ Done(r, "create_comment")
        /\ sql[r] = 2
        /\ resp[r].status = 500
        /\ txn[r] = TxnRolledBack
        /\ posts # {}

\* the author named by a create request is well formed and no stored user
UnknownAuthor(r) == IsUuid(req[r].authorId) /\ ~AuthorStored(r)

\* the post named by a create_comment request is stored
PostStored(r) == \E p \in posts : p.id = req[r].post_id

\* C25 as stated: a create_post or create_comment whose authorId is well
\* formed and matches no stored user is answered with the generic 500, not
\* with 400, and stores no row.
C25_AnyRequest ==
    [][\A r \in Slots :
        ( /\ Responds(r, "create_post") \/ Responds(r, "create_comment")
          /\ UnknownAuthor(r) )
        => /\ resp'[r] = InternalServerError
           /\ UNCHANGED <<posts, comments>>]_vars

\* C25 amended: the 500 is the answer to a request that passes validation and,
\* for a comment, names a stored post; the services look no author up, the
\* foreign key of the INSERT fails, and no row is stored.
C25_UnknownAuthorIs500 ==
    [][\A r \in Slots :
        ( /\ \/ Responds(r, "create_post")
             \/ Responds(r, "create_comment") /\ PostStored(r)
          /\ ~Malformed(req[r])
          /\ UnknownAuthor(r) )
        => /\ resp'[r] = InternalServerError
           /\ exc[r].type = "IntegrityError"
           /\ UNCHANGED <<posts, comments>>]_vars

\* a comment on a stored post by an author that no user is was answered 500
\* and is not stored
C25_Witness ==
    \E r \in Slots :
        /\ Done(r, "create_comment")
        /\ ~Malformed(req[r])
        /\ PostStored(r)
        /\ UnknownAuthor(r)
        /\ resp[r] = InternalServerError
        /\ comments = {}

\* C26 as stated: every title of raw length over 200 is rejected with "Title
\* cannot exceed 200 characters", also when its trimmed form has 200
\* characters or fewer; create_post passes a title exactly when its raw length
\* is at most 200 and its trimmed form is not empty, and stores it trimmed.
C26_AnyLongTitle ==
    \A r \in Slots :
        Done(r, "create_post") =>
            /\ Len(req[r].title) > 200 => resp[r] = TitleTooLong
            /\ resp[r] \notin {TitleEmpty, TitleTooLong}
               <=> Len(req[r].title) <= 200 /\ Strip(req[r].title) # <<>>
            /\ resp[r].status = 201 => resp[r].body.title = Strip(req[r].title)

\* C26 amended: the title of raw length over 200 that is rejected with "Title
\* cannot exceed 200 characters" is one that is not whitespace only.
C26_RawLengthLimit ==
    \A r \in Slots :
        Done(r, "create_post") =>
            /\ Len(req[r].title) > 200 /\ ~AllWhitespace(req[r].title)
               => resp[r] = TitleTooLong
            /\ resp[r] \notin {TitleEmpty, TitleTooLong}
               <=> Len(req[r].title) <= 200 /\ Strip(req[r].title) # <<>>
            /\ resp[r].status = 201 =>
                /\ resp[r].body.title = Strip(req[r].title)
                /\ \E p \in posts : p.id = resp[r].body.postId /\ p.title = Strip(req[r].title)

\* a title of 201 raw characters whose trimmed form has 200 was rejected for
\* its length
C26_Witness ==
    \E r \in Slots :
        /\ Done(r, "create_post")
        /\ Len(req[r].title) = 201
        /\ Len(Strip(req[r].title)) = 200
        /\ resp[r] = TitleTooLong

\* C27: create_post reports the first failing rule only, in the order title
\* empty, title too long, content empty; create_comment reports the empty
\* content whatever the post id, stored or not.
C27_FirstFailingRule ==
    \A r \in Slots :
        /\ Done(r, "create_post") =>
            IF AllWhitespace(req[r].title) THEN resp[r] = TitleEmpty
            ELSE IF Len(req[r].title) > 200 THEN resp[r] = TitleTooLong
            ELSE AllWhitespace(req[r].content) => resp[r] = ContentEmpty
        /\ Done(r, "create_comment") /\ AllWhitespace(req[r].content)
           => resp[r] = ContentEmpty

\* a post with an empty title and an empty content was answered "Title cannot
\* be empty"
C27_Witness ==
    \E r \in Slots :
        /\ Done(r, "create_post")
        /\ req[r].title = <<>> /\ req[r].content = <<>>
        /\ resp[r] = TitleEmpty

\* the answer to every failed login
InvalidCredentials == Response(401, Detail("Invalid credentials", <<>>), NoBody)

\* C28: a login that does not succeed is answered 401 "Invalid credentials",
\* the same response whether no user carries the username or the password is
\* wrong, so the response tells nothing of the stored usernames; a login
\* succeeds only with the username and the password of a stored user.
C28_FailedLoginUniform ==
    \A r \in Slots :
        Done(r, "login") =>
            /\ resp[r].status # 200 => resp[r] = InvalidCredentials
            /\ resp[r].status = 200 =>
                  \E u \in users : /\ u.username = req[r].username
                                   /\ u.password_hash = HashPassword(req[r].password)

\* a login under a username no user carries and a login under a stored
\* username with a wrong password got the same response
C28_Witness ==
    \E r \in Slots : \E s \in Slots :
        /\ Done(r, "login") /\ Done(s, "login")
        /\ ~\E u \in users : u.username = req[r].username
        /\ \E u \in users : u.username = req[s].username
        /\ resp[r] = InvalidCredentials
        /\ resp[s] = resp[r]

\* C29: list_comments on a well-formed post id that no stored post carries is
\* answered 200 with an empty list.
C29_ListOfMissingPost ==
    \A r \in Slots :
        Done(r, "list_comments") /\ PostMissing(r)
        => resp[r] = Response(200, NoDetail, [comments |-> <<>>])

\* with a post stored, the comments of another post id were listed: 200, empty
C29_Witness ==
    \E r \in Slots :
        /\ Done(r, "list_comments")
        /\ PostMissing(r)
        /\ posts # {}
        /\ resp[r].status = 200
        /\ resp[r].body.comments = <<>>

\* what the workflow asserts of the exchanges made so far
C21_Asserts ==
    /\ FlowAsserts(flow)
    /\ \A i \in 1..Len(flow) : flow[i].request.kind = FlowKinds[i]
    /\ Len(flow) >= 2 =>
          flow[2].response.body.userId = flow[1].response.body.userId
    /\ Len(flow) >= 3 =>
          /\ flow[3].response.body.title = flow[3].request.title
          /\ flow[3].response.body.content = flow[3].request.content
          /\ flow[3].response.body.authorId = flow[1].response.body.userId
    /\ Len(flow) >= 4 => flow[4].response.body = flow[3].response.body
    /\ Len(flow) >= 6 =>
          /\ Len(flow[6].response.body.comments) = 1
          /\ flow[6].response.body.comments[1].content = flow[5].request.content
          /\ flow[6].response.body.comments[1].commentId = flow[5].response.body.commentId

\* C21: from an empty database the workflow register, login, create post,
\* fetch post, add comment, list comments runs to its end and every step
\* succeeds, with statuses 201, 200, 201, 200, 201, 200; login returns the
\* registered userId, the fetched post has the fields of the created one, and
\* the list holds one comment, with the submitted content.
C21_Workflow == []C21_Asserts /\ <>(Len(flow) = Len(FlowKinds))

\* the six steps of the workflow are done
C21_Witness ==
    /\ Len(flow) = 6
    /\ flow[6].response.status = 200
    /\ Len(flow[6].response.body.comments) = 1
    /\ Cardinality(users) = 1 /\ Cardinality(posts) = 1 /\ Cardinality(comments) = 1

====
